---- MODULE Spec2Model ----
(***************************************************************************)
(* Model of process_data.py: a cached table of daily adjusted-close prices *)
(* that main() loads or downloads, refreshes when stale, and from which it *)
(* derives daily and weekly return tables.                                 *)
(*                                                                         *)
(* A table is a sequence of rows [date, vals]; the date is the row's index *)
(* label (a day number, day 0 being a Saturday) and vals maps each ticker to *)
(* a cell.  A series is a sequence of [date, val].  The pandas operations  *)
(* the program calls are modelled by what they do to such sequences.       *)
(***************************************************************************)
EXTENDS Integers, Sequences, FiniteSets, TLC

VARIABLES
    pc,                 \* position of main(), or of a function under study
    now,                \* dt.datetime.today(), in ticks (TicksPerDay per day)
    file_prices,        \* ./data/prices.parquet          [exists, rows]
    file_daily,         \* ./data/daily_returns.parquet   [exists, rows]
    file_weekly,        \* ./data/weekly_returns.parquet  [exists, rows]
    prices,             \* main's local `prices`
    prices_incremental, \* main's local `prices_incremental`
    latest_date,        \* main's local `latest_date`
    run,                \* history of the current run (see NewRun)
    series,             \* argument of compute_*_returns under study
    returns             \* [daily, weekly] results of compute_*_returns

vars == <<pc, now, file_prices, file_daily, file_weekly, prices,
          prices_incremental, latest_date, run, series, returns>>

----------------------------------------------------------------------------
(* Bounds of the model *)

\* the remote source has quotes for the days 0 .. MaxDay
MaxDay == 2
\* quotes are 1 .. MaxPrice, or missing
MaxPrice == 2
\* a download returns at most MaxRows rows
MaxRows == 1
\* main() is run on the days 0 .. LastRunDay, at most MaxRuns times
LastRunDay == 5
MaxRuns == 2
\* update_prices is studied on tables of at most MaxMergeRows rows
MaxMergeRows == 2
\* compute_*_returns are studied on series of at most MaxLen entries
MaxLen == 4

\* dt.datetime.today() has a time of day; date labels are midnights
TicksPerDay == 2
MaxNow == (LastRunDay + 1) * TicksPerDay - 1

(* Program constants *)

StaleDays == 2
DaysPerWeek == 7
InitialDays == 5 * 365
NaN == 0

tickers == {"AAA", "BBB"}

\* the label of a missing return (NaN in a returns series)
NaR == <<>>

Days == 0 .. MaxDay
Cells == {NaN} \cup (1 .. MaxPrice)
Vals == [tickers -> Cells]

Min(S) == CHOOSE x \in S : \A y \in S : x <= y
Max(S) == CHOOSE x \in S : \A y \in S : y <= x

RECURSIVE Ascending(_)
Ascending(S) == IF S = {} THEN <<>> ELSE <<Min(S)>> \o Ascending(S \ {Min(S)})

Dates(t) == {t[i].date : i \in DOMAIN t}
HasDuplicateDates(t) == \E i, j \in DOMAIN t : i < j /\ t[i].date = t[j].date
IsAscending(t) == \A i, j \in DOMAIN t : i < j => t[i].date <= t[j].date
Missing == [exists |-> FALSE, rows |-> <<>>]
Stored(t) == [exists |-> TRUE, rows |-> t]

\* the timestamp of a date label: midnight of that day
Midnight(d) == d * TicksPerDay

----------------------------------------------------------------------------
(* The remote source: tables with unique ascending dates inside the        *)
(* requested range, at most MaxRows rows, any cell possibly missing.       *)

TablesOn(S) ==
    LET ds == Ascending(S)
    IN  {[i \in DOMAIN ds |-> [date |-> ds[i], vals |-> f[i]]] :
            f \in [DOMAIN ds -> Vals]}

TablesWithin(D, n) ==
    UNION {TablesOn(S) : S \in {T \in SUBSET D : Cardinality(T) <= n}}

download(start, end) ==
    TablesWithin({d \in Days : start <= Midnight(d) /\ Midnight(d) <= end},
                 MaxRows)

----------------------------------------------------------------------------
(* pandas operations *)

concat(a, b) == a \o b

\* DataFrame.drop_duplicates(keep='last'): a row is dropped when a later row
\* has the same values in every column (the index is not compared, and
\* missing values compare equal)
drop_duplicates_last(t) ==
    LET keep(i) == \A j \in DOMAIN t : j > i => t[j].vals # t[i].vals
        RECURSIVE from(_)
        from(i) == IF i > Len(t) THEN <<>>
                   ELSE (IF keep(i) THEN <<t[i]>> ELSE <<>>) \o from(i + 1)
    IN  from(1)

index_max(t) == Max(Dates(t))

column(t, c) == [i \in DOMAIN t |-> [date |-> t[i].date, val |-> t[i].vals[c]]]

dropna(s) ==
    LET RECURSIVE from(_)
        from(i) == IF i > Len(s) THEN <<>>
                   ELSE (IF s[i].val # NaN THEN <<s[i]>> ELSE <<>>) \o from(i + 1)
    IN  from(1)

\* Series.pct_change(): (p[t] - p[t-1]) / p[t-1] by position, kept as the
\* fraction <<numerator, denominator>>; the first entry is missing
pct_change(s) ==
    [i \in DOMAIN s |->
        [date |-> s[i].date,
         val  |-> IF i = 1 THEN NaR
                  ELSE <<s[i].val - s[i - 1].val, s[i - 1].val>>]]

\* a plausible slip: weeks ending on Saturday (resample('W-SAT'))
week_end_saturday(d) == d + ((DaysPerWeek - (d % DaysPerWeek)) % DaysPerWeek)

\* the first Sunday on or after day d (day 0 is a Saturday, day 1 a Sunday)
week_end(d) == d + (((DaysPerWeek + 1) - (d % DaysPerWeek)) % DaysPerWeek)

\* Series.resample('W').ffill(): one entry per Sunday from the week of the
\* first date to the week of the last date, each holding the value of the
\* last observation on or before that Sunday.  The reindex behind ffill
\* raises on an index with duplicate labels.
resample_raises(s) == HasDuplicateDates(s)

asof(s, d) ==
    LET i == CHOOSE i \in DOMAIN s :
                /\ s[i].date <= d
                /\ \A j \in DOMAIN s : s[j].date <= d => s[j].date <= s[i].date
    IN  s[i].val

\* a plausible slip: weekly bins counted from the first observation
\* (resample('7D')) instead of calendar weeks ending on Sunday
resample_7D_ffill(s) ==
    IF s = <<>> THEN <<>>
    ELSE LET lo == Min(Dates(s))
             n  == ((Max(Dates(s)) - lo) \div DaysPerWeek) + 1
         IN  [k \in 1 .. n |->
                LET d == lo + DaysPerWeek * (k - 1)
                IN  [date |-> d, val |-> asof(s, d)]]

resample_W_ffill(s) ==
    IF s = <<>> THEN <<>>
    ELSE LET lo == week_end(Min(Dates(s)))
             hi == week_end(Max(Dates(s)))
             n  == ((hi - lo) \div DaysPerWeek) + 1
         IN  [k \in 1 .. n |->
                LET d == lo + DaysPerWeek * (k - 1)
                IN  [date |-> d, val |-> asof(s, d)]]

\* pd.concat(list, axis=1): the columns are aligned on the union of their
\* indexes.  Identical indexes are taken as they are; otherwise the union of
\* the date indexes is sorted and every column is reindexed on it, which
\* raises when a column's index has duplicate labels.
index_of(s) == [i \in DOMAIN s |-> s[i].date]

same_index(cols) == \A c, d \in tickers : index_of(cols[c]) = index_of(cols[d])

concat_columns_raises(cols) ==
    ~same_index(cols) /\ \E c \in tickers : HasDuplicateDates(cols[c])

at(s, d) ==
    IF d \in Dates(s) THEN s[CHOOSE i \in DOMAIN s : s[i].date = d].val ELSE NaR

concat_columns(cols) ==
    IF same_index(cols)
    THEN LET first == cols[CHOOSE c \in tickers : TRUE]
         IN  [i \in DOMAIN first |->
                [date |-> first[i].date, vals |-> [c \in tickers |-> cols[c][i].val]]]
    ELSE LET ds == Ascending(UNION {Dates(cols[c]) : c \in tickers})
         IN  [i \in DOMAIN ds |->
                [date |-> ds[i], vals |-> [c \in tickers |-> at(cols[c], ds[i])]]]

\* DataFrame.dropna(how='all', axis=0)
dropna_all(t) ==
    LET RECURSIVE from(_)
        from(i) == IF i > Len(t) THEN <<>>
                   ELSE (IF \E c \in tickers : t[i].vals[c] # NaR
                         THEN <<t[i]>> ELSE <<>>) \o from(i + 1)
    IN  from(1)

----------------------------------------------------------------------------
(* The functions of process_data.py *)

update_prices(p, inc) == drop_duplicates_last(concat(p, inc))

\* a plausible slip: the missing values are not dropped before pct_change
compute_daily_returns_keepna(s) == pct_change(s)

compute_daily_returns(s) == pct_change(dropna(s))

compute_weekly_returns(s) == pct_change(resample_W_ffill(dropna(s)))

daily_columns(p) == [c \in tickers |-> compute_daily_returns(column(p, c))]
weekly_columns(p) == [c \in tickers |-> compute_weekly_returns(column(p, c))]

\* get_returns computes both tables before it writes either file (lines
\* 106-112), so an exception leaves both files as they were
get_returns_raises(p) ==
    \/ \E c \in tickers : resample_raises(dropna(column(p, c)))
    \/ concat_columns_raises(daily_columns(p))

daily_returns(p) == dropna_all(concat_columns(daily_columns(p)))
weekly_returns(p) == dropna_all(concat_columns(weekly_columns(p)))

----------------------------------------------------------------------------
(* main(): one run is load, check, [update, merge], returns.  `run` keeps  *)
(* the history of the current run: the files as the run found them, the    *)
(* fetches it issued, the table it obtained, its staleness decision and    *)
(* the arguments of its get_returns calls.                                 *)

Files == <<file_prices, file_daily, file_weekly>>

NewRun(n) == [count |-> n, files |-> Files, fetches |-> <<>>, obtained |-> <<>>,
              decided |-> "none", returns_calls |-> <<>>]

NoRun == [count |-> 0, files |-> <<Missing, Missing, Missing>>, fetches |-> <<>>,
          obtained |-> <<>>, decided |-> "none", returns_calls |-> <<>>]

Ended == {"idle", "done", "fetch_failed", "returns_failed"}

Init ==
    /\ pc = "idle"
    /\ now \in 0 .. MaxNow
    /\ file_prices = Missing
    /\ file_daily = Missing
    /\ file_weekly = Missing
    /\ prices = <<>>
    /\ prices_incremental = <<>>
    /\ latest_date = 0
    /\ run = NoRun
    /\ series = <<>>
    /\ returns = [daily |-> <<>>, weekly |-> <<>>]

\* python process_data.py, at a later time than the previous run
main_start ==
    /\ pc \in Ended
    /\ run.count < MaxRuns
    /\ \E t \in (now + 1) .. MaxNow : now' = t
    /\ pc' = "load"
    /\ run' = NewRun(run.count + 1)
    /\ prices' = <<>>
    /\ prices_incremental' = <<>>
    /\ latest_date' = 0
    /\ UNCHANGED <<file_prices, file_daily, file_weekly, series, returns>>

initial_request == [kind |-> "initial",
                    start |-> now - InitialDays * TicksPerDay, end |-> now]

\* lines 125-127 with get_initial_data: the download succeeded.  The table
\* has at least one row: on an empty table prices.index.max() (line 132) has
\* no date to return.
get_initial_data ==
    /\ pc = "load"
    /\ ~file_prices.exists
    /\ \E t \in download(initial_request.start, initial_request.end) \ {<<>>} :
          /\ prices' = t
          /\ file_prices' = Stored(t)
          /\ run' = [run EXCEPT !.fetches = Append(@, initial_request),
                                !.obtained = t]
    /\ pc' = "check"
    /\ UNCHANGED <<now, file_daily, file_weekly, prices_incremental,
                   latest_date, series, returns>>

\* a plausible slip: the parquet file is written before the download
get_initial_data_writes_then_fails ==
    /\ pc = "load"
    /\ ~file_prices.exists
    /\ run' = [run EXCEPT !.fetches = Append(@, initial_request)]
    /\ file_prices' = Stored(<<>>)
    /\ pc' = "fetch_failed"
    /\ UNCHANGED <<now, file_daily, file_weekly, prices,
                   prices_incremental, latest_date, series, returns>>

\* lines 125-127 with get_initial_data: yf.download raised (line 22)
get_initial_data_fails ==
    /\ pc = "load"
    /\ ~file_prices.exists
    /\ run' = [run EXCEPT !.fetches = Append(@, initial_request)]
    /\ pc' = "fetch_failed"
    /\ UNCHANGED <<now, file_prices, file_daily, file_weekly, prices,
                   prices_incremental, latest_date, series, returns>>

\* lines 128-130
read_prices ==
    /\ pc = "load"
    /\ file_prices.exists
    /\ prices' = file_prices.rows
    /\ run' = [run EXCEPT !.obtained = file_prices.rows]
    /\ pc' = "check"
    /\ UNCHANGED <<now, file_prices, file_daily, file_weekly,
                   prices_incremental, latest_date, series, returns>>

\* a plausible slip: the dates are compared, without the time of day
is_stale_by_date(latest, t) == latest < (t \div TicksPerDay) - StaleDays

is_stale(latest, t) == Midnight(latest) < t - StaleDays * TicksPerDay

\* lines 132-134
main_check ==
    /\ pc = "check"
    /\ latest_date' = index_max(prices)
    /\ IF is_stale(index_max(prices), now)
       THEN pc' = "update" /\ run' = [run EXCEPT !.decided = "stale"]
       ELSE pc' = "returns" /\ run' = [run EXCEPT !.decided = "fresh"]
    /\ UNCHANGED <<now, file_prices, file_daily, file_weekly, prices,
                   prices_incremental, series, returns>>

incremental_request == [kind |-> "incremental",
                        start |-> Midnight(latest_date), end |-> now]

\* line 136: the download succeeded
get_incremental_data ==
    /\ pc = "update"
    /\ \E t \in download(incremental_request.start, incremental_request.end) :
          prices_incremental' = t
    /\ run' = [run EXCEPT !.fetches = Append(@, incremental_request)]
    /\ pc' = "merge"
    /\ UNCHANGED <<now, file_prices, file_daily, file_weekly, prices,
                   latest_date, series, returns>>

\* line 136: yf.download raised (line 48)
get_incremental_data_fails ==
    /\ pc = "update"
    /\ run' = [run EXCEPT !.fetches = Append(@, incremental_request)]
    /\ pc' = "fetch_failed"
    /\ UNCHANGED <<now, file_prices, file_daily, file_weekly, prices,
                   prices_incremental, latest_date, series, returns>>

\* line 137
main_update_prices ==
    /\ pc = "merge"
    /\ prices' = update_prices(prices, prices_incremental)
    /\ file_prices' = Stored(update_prices(prices, prices_incremental))
    /\ pc' = "returns"
    /\ UNCHANGED <<now, file_daily, file_weekly, prices_incremental,
                   latest_date, run, series, returns>>

\* line 139
get_returns ==
    /\ pc = "returns"
    /\ run' = [run EXCEPT !.returns_calls = Append(@, prices)]
    /\ IF get_returns_raises(prices)
       THEN /\ pc' = "returns_failed"
            /\ UNCHANGED <<file_daily, file_weekly>>
       ELSE /\ pc' = "done"
            /\ file_daily' = Stored(daily_returns(prices))
            /\ file_weekly' = Stored(weekly_returns(prices))
    /\ UNCHANGED <<now, file_prices, prices, prices_incremental, latest_date,
                   series, returns>>

Next ==
    \/ main_start
    \/ get_initial_data
    \/ get_initial_data_fails
    \/ read_prices
    \/ main_check
    \/ get_incremental_data
    \/ get_incremental_data_fails
    \/ main_update_prices
    \/ get_returns

Spec == Init /\ [][Next]_vars

----------------------------------------------------------------------------
(* update_prices on its own: every pair of well-formed tables (unique      *)
(* ascending dates) as `prices` and `prices_incremental`, then line 137.   *)

MergeTables == TablesWithin(Days, MaxMergeRows)

InitMerge ==
    /\ pc = "merge"
    /\ now = 0
    /\ file_prices = Missing
    /\ file_daily = Missing
    /\ file_weekly = Missing
    /\ prices \in MergeTables
    /\ prices_incremental \in MergeTables
    /\ latest_date = 0
    /\ run = [NoRun EXCEPT !.obtained = prices]
    /\ series = <<>>
    /\ returns = [daily |-> <<>>, weekly |-> <<>>]

SpecMerge == InitMerge /\ [][main_update_prices]_vars

existing == run.obtained
merged == pc = "returns"

----------------------------------------------------------------------------
(* compute_daily_returns and compute_weekly_returns on their own: short    *)
(* series with unique ascending dates and possibly missing values, and     *)
(* series with a price on each of 14 consecutive days.                     *)

SeriesOn(S, cells) ==
    LET ds == Ascending(S)
    IN  {[i \in DOMAIN ds |-> [date |-> ds[i], val |-> f[i]]] :
            f \in [DOMAIN ds -> cells]}

ShortSeries ==
    UNION {SeriesOn(S, Cells) :
            S \in {T \in SUBSET (0 .. MaxLen) : Cardinality(T) <= MaxLen}}

Fortnight == 2 * DaysPerWeek

Fortnights ==
    {[i \in 1 .. Fortnight |->
        [date |-> start + i - 1, val |-> IF i <= k THEN a ELSE b]] :
        start \in 0 .. (DaysPerWeek - 1), k \in 0 .. Fortnight,
        a \in 1 .. MaxPrice, b \in 1 .. MaxPrice}

InitReturns ==
    /\ pc = "series"
    /\ now = 0
    /\ file_prices = Missing
    /\ file_daily = Missing
    /\ file_weekly = Missing
    /\ prices = <<>>
    /\ prices_incremental = <<>>
    /\ latest_date = 0
    /\ run = NoRun
    /\ series \in ShortSeries \cup Fortnights
    /\ returns = [daily |-> <<>>, weekly |-> <<>>]

\* lines 109-110 for one column
compute_returns ==
    /\ pc = "series"
    /\ returns' = [daily  |-> compute_daily_returns(series),
                   weekly |-> compute_weekly_returns(series)]
    /\ pc' = "computed"
    /\ UNCHANGED <<now, file_prices, file_daily, file_weekly, prices,
                   prices_incremental, latest_date, run, series>>

SpecReturns == InitReturns /\ [][compute_returns]_vars

----------------------------------------------------------------------------
(* Claims about update_prices, under SpecMerge.  `existing` and            *)
(* prices_incremental are the inputs, `prices` and file_prices the merged  *)
(* table once `merged` holds.                                              *)

InBoth == Dates(existing) \cap Dates(prices_incremental)

row_at(t, d) == t[CHOOSE i \in DOMAIN t : t[i].date = d]

\* C1: the table update_prices returns and persists has no two rows with
\* the same date, whatever the inputs
C1_NoDuplicateDates ==
    merged => /\ ~HasDuplicateDates(prices)
              /\ ~HasDuplicateDates(file_prices.rows)

\* C2: for every date in both inputs the merged table has a row, and every
\* merged row of that date holds the incremental table's values
C2_IncrementalWins ==
    merged =>
        \A d \in InBoth :
            /\ d \in Dates(prices)
            /\ \A i \in DOMAIN prices :
                  prices[i].date = d =>
                      prices[i].vals = row_at(prices_incremental, d).vals

\* C3: the dates of the merged table are exactly the dates of the two inputs
C3_DatesAreUnion ==
    merged => Dates(prices) = Dates(existing) \cup Dates(prices_incremental)

\* C4: both inputs having ascending dates (as every input here has), the
\* merged rows are in ascending date order
C4_AscendingOrder ==
    merged => IsAscending(prices)

\* C5: when every incremental date is already an existing date, the merge
\* keeps the row count, keeps the existing values on the other dates, takes
\* the incremental values on the shared dates, and merging the same
\* incremental table again changes nothing
C5_MergeIdempotent ==
    (merged /\ Dates(prices_incremental) \subseteq Dates(existing)) =>
        /\ Len(prices) = Len(existing)
        /\ \A i \in DOMAIN existing :
              LET d == existing[i].date
              IN  /\ d \in Dates(prices)
                  /\ row_at(prices, d).vals =
                        IF d \in Dates(prices_incremental)
                        THEN row_at(prices_incremental, d).vals
                        ELSE existing[i].vals
        /\ update_prices(prices, prices_incremental) = prices

----------------------------------------------------------------------------
(* Claims about the return functions, under SpecReturns. *)

computed == pc = "computed"

Gaps(s) == {i \in DOMAIN s : s[i].val = NaN}

\* a single missing value, strictly inside the series
SingleGap(s) ==
    /\ Cardinality(Gaps(s)) = 1
    /\ \A m \in Gaps(s) : 1 < m /\ m < Len(s)

simple_return(p, q) == <<q - p, p>>

\* C8: with a single missing value strictly inside the series, the daily
\* returns have no entry at the missing date, hold at the first date after
\* the gap the return between the observations on either side of the gap,
\* and at every other date after the first the return against the
\* preceding observation
C8_DailyReturnsBridgeGap ==
    (computed /\ SingleGap(series)) =>
        LET m == CHOOSE i \in Gaps(series) : TRUE
            r == returns.daily
            pos(i) == IF i < m THEN i ELSE i - 1
        IN  /\ Len(r) = Len(series) - 1
            /\ series[m].date \notin Dates(r)
            /\ \A i \in DOMAIN series \ {m} :
                  /\ r[pos(i)].date = series[i].date
                  /\ r[pos(i)].val =
                        IF i = 1 THEN NaR
                        ELSE IF i = m + 1
                             THEN simple_return(series[m - 1].val, series[i].val)
                             ELSE simple_return(series[i - 1].val, series[i].val)

C8_Witness ==
    /\ computed
    /\ SingleGap(series)
    /\ Len(series) = MaxLen
    /\ LET m == CHOOSE i \in Gaps(series) : TRUE
       IN  /\ series[m + 1].val # series[m - 1].val
           /\ series[m + 1].date > series[m].date + 1

\* a price on each of 14 consecutive days
IsFortnight(s) ==
    /\ Len(s) = Fortnight
    /\ \A i \in DOMAIN s : s[i].val # NaN /\ s[i].date = s[1].date + i - 1

\* day 0 is a Saturday, so the Mondays are the days 2, 9, ...
IsMonday(d) == d % DaysPerWeek = 2

WeeklyValues(r) == {i \in DOMAIN r : r[i].val # NaR}

\* C9 as claimed: 14 daily prices give exactly 2 weekly return values
\* whatever weekday the span starts on
C9_TwoWeeklyReturns ==
    (computed /\ IsFortnight(series)) =>
        Cardinality(WeeklyValues(returns.weekly)) = 2

\* C9 as amended: the 14 days fall into 3 Sunday-ending weeks and give 2
\* weekly return values after the undefined first one, except when the span
\* starts on a Monday: it then fills exactly 2 weeks and gives 1
C9_WeeklyReturnsByStartDay ==
    (computed /\ IsFortnight(series)) =>
        LET r == returns.weekly
            n == IF IsMonday(series[1].date) THEN 1 ELSE 2
        IN  /\ Len(r) = n + 1
            /\ r[1].val = NaR
            /\ WeeklyValues(r) = 2 .. (n + 1)
            /\ \A i \in DOMAIN r :
                  /\ r[i].date >= series[1].date
                  /\ r[i].date % DaysPerWeek = 1
                  /\ i > 1 => r[i].date = r[i - 1].date + DaysPerWeek

C9_Witness ==
    /\ computed
    /\ IsFortnight(series)
    /\ IsMonday(series[1].date)
    /\ Cardinality(WeeklyValues(returns.weekly)) = 1
    /\ returns.weekly[2].val[1] # 0

----------------------------------------------------------------------------
(* Claims about main(), under Spec. *)

today == now \div TicksPerDay

UpdaterRan == \E i \in DOMAIN run.fetches : run.fetches[i].kind = "incremental"

GotTable == run.obtained # <<>>

FromCache == run.files[1].exists

\* the latest date d is earlier than the time t minus 2 days
EarlierThanTwoDaysAgo(d, t) == (d + StaleDays) * TicksPerDay < t

latest(t) == index_max(t)

RunOver == pc \in {"done", "returns_failed", "fetch_failed"}

FiveDaysOld == FromCache /\ GotTable /\ today - latest(run.obtained) = 5

\* exactly one fetch, incremental, whose range holds every date from the
\* cached latest date to today
FetchedTheGap ==
    /\ Len(run.fetches) = 1
    /\ run.fetches[1].kind = "incremental"
    /\ \A d \in latest(run.obtained) .. today :
          /\ run.fetches[1].start <= Midnight(d)
          /\ Midnight(d) <= run.fetches[1].end

\* C6 as claimed: from a cache whose latest date is 5 days old, a finished
\* run has requested every date from that date to today, and the latest date
\* of each persisted returns table that has rows is the latest date of the
\* persisted price table
C6_ReturnsUpToLatestPrice ==
    (pc = "done" /\ FiveDaysOld) =>
        /\ FetchedTheGap
        /\ file_daily.rows # <<>> =>
              latest(file_daily.rows) = latest(file_prices.rows)
        /\ file_weekly.rows # <<>> =>
              latest(file_weekly.rows) = latest(file_prices.rows)

\* the rows of column c that hold a price
Priced(t, c) == {i \in DOMAIN t : t[i].vals[c] # NaN}

\* the dates of the prices that follow, in row order, a price of their ticker
FollowingPrices(t) ==
    {t[i].date : i \in {k \in DOMAIN t :
        \E c \in tickers : k \in Priced(t, c) /\ \E j \in Priced(t, c) : j < k}}

\* L is the Sunday that ends the week of day d
EndsWeekOf(L, d) == L % DaysPerWeek = 1 /\ d <= L /\ L < d + DaysPerWeek

\* the last dates of the tickers whose prices fall into more than one week
LastOfSeveralWeeks(t) ==
    {t[i].date : i \in {k \in DOMAIN t :
        \E c \in tickers :
            /\ k \in Priced(t, c)
            /\ \A j \in Priced(t, c) : t[j].date <= t[k].date
            /\ \E j \in Priced(t, c) :
                  \E L \in t[j].date .. (t[k].date - 1) : EndsWeekOf(L, t[j].date)}}

\* C6 as amended: such a run requests every date from the cached latest date
\* to today.  When get_returns completes, the daily table's latest date is
\* the latest date of a price that follows a price of its ticker, at most
\* the price table's latest date, and the weekly table's latest date is the
\* Sunday ending the week of the last price of a ticker priced in several
\* weeks, which is the price table's latest date only if that is a Sunday.
\* When get_returns raises, on duplicate dates in the price table, both
\* returns files stay as the run found them.
C6_ReturnsDatedByTheirBins ==
    (RunOver /\ FiveDaysOld) =>
        /\ FetchedTheGap
        /\ pc = "done" =>
              /\ file_daily.rows # <<>> =>
                    /\ latest(file_daily.rows) = Max(FollowingPrices(file_prices.rows))
                    /\ latest(file_daily.rows) <= latest(file_prices.rows)
              /\ file_daily.rows = <<>> => FollowingPrices(file_prices.rows) = {}
              /\ file_weekly.rows # <<>> =>
                    \E d \in LastOfSeveralWeeks(file_prices.rows) :
                        /\ \A e \in LastOfSeveralWeeks(file_prices.rows) : e <= d
                        /\ EndsWeekOf(latest(file_weekly.rows), d)
              /\ file_weekly.rows = <<>> => LastOfSeveralWeeks(file_prices.rows) = {}
        /\ pc = "returns_failed" =>
              /\ HasDuplicateDates(file_prices.rows)
              /\ file_daily = run.files[2]
              /\ file_weekly = run.files[3]

C6_Witness ==
    /\ pc = "done"
    /\ FiveDaysOld
    /\ file_daily.rows # <<>>
    /\ file_weekly.rows # <<>>
    /\ latest(file_daily.rows) = latest(file_prices.rows)
    /\ latest(file_weekly.rows) > latest(file_prices.rows)

Decided ==
    /\ UpdaterRan <=> EarlierThanTwoDaysAgo(latest(run.obtained), now)
    /\ ~UpdaterRan => file_prices = Stored(run.obtained)
    /\ UpdaterRan =>
          /\ Len(run.fetches) = (IF FromCache THEN 1 ELSE 2)
          /\ run.fetches[Len(run.fetches)].start = Midnight(latest(run.obtained))
          /\ run.fetches[Len(run.fetches)].end = now

ReturnsOnceOnResult ==
    /\ Len(run.returns_calls) = 1
    /\ run.returns_calls[1] = file_prices.rows
    /\ UpdaterRan =>
          run.returns_calls[1] = update_prices(run.obtained, prices_incremental)

\* C7 as claimed: in every run that obtained a table the Updater runs if and
\* only if the latest date is earlier than now minus 2 days, no fetch and no
\* write of the price table happen otherwise, and get_returns runs exactly
\* once on the resulting table
C7_EveryRunComputesReturns ==
    (RunOver /\ GotTable) => (Decided /\ ReturnsOnceOnResult)

\* C7 as amended: the same, for the runs in which no fetch fails; a run whose
\* incremental fetch fails was stale and ends without calling get_returns
C7_UpdaterIffStale ==
    /\ Len(run.returns_calls) <= 1
    /\ (RunOver /\ GotTable) => Decided
    /\ (pc \in {"done", "returns_failed"}) => ReturnsOnceOnResult
    /\ (pc = "fetch_failed" /\ GotTable) =>
          (UpdaterRan /\ run.returns_calls = <<>>)
    /\ (pc = "returns") =>
          (UpdaterRan <=> EarlierThanTwoDaysAgo(latest(run.obtained), now))

C7_Witness ==
    /\ pc = "done"
    /\ FromCache
    /\ UpdaterRan
    /\ prices_incremental # <<>>
    /\ today - latest(run.obtained) = StaleDays

NoRetry ==
    \A i, j \in DOMAIN run.fetches :
        run.fetches[i].kind = run.fetches[j].kind => i = j

\* C10 as claimed: a run ended by a fetch failure made no second attempt,
\* wrote no file (the three files are as the run found them, a price table
\* missing before a first run still missing) and never reached get_returns
C10_FetchFailureWritesNothing ==
    pc = "fetch_failed" =>
        /\ NoRetry
        /\ run.returns_calls = <<>>
        /\ Files = run.files
        /\ ~FromCache => ~file_prices.exists

\* C10 as amended: the same when the failed fetch is the first fetch of the
\* run (get_initial_data on a first run, get_incremental_data after the
\* cache was read); when get_initial_data succeeded with a table that is
\* already stale and get_incremental_data then fails, the new price table
\* stays on disk and the returns files are as the run found them
C10_FailedFetchKeepsFiles ==
    pc = "fetch_failed" =>
        /\ NoRetry
        /\ run.returns_calls = <<>>
        /\ file_daily = run.files[2]
        /\ file_weekly = run.files[3]
        /\ Len(run.fetches) = 1 =>
              /\ Files = run.files
              /\ run.fetches[1].kind = (IF FromCache THEN "incremental" ELSE "initial")
        /\ Len(run.fetches) # 1 =>
              /\ ~FromCache
              /\ run.fetches[1].kind = "initial"
              /\ run.fetches[2].kind = "incremental"
              /\ file_prices = Stored(run.obtained)

C10_Witness ==
    /\ pc = "fetch_failed"
    /\ FromCache
    /\ file_daily.exists
    /\ run.fetches[1].kind = "incremental"

====
